---- MODULE Spec2Model ----
(***************************************************************************)
(* Virtual Gamepad plugin (src/code.js): the input bridge (pressKey,       *)
(* releaseKey, clearRepeat and the two timer callbacks), the touch surface *)
(* (pointer handlers of the buttons, the document-level pointerup          *)
(* listener, the two clusters) and the activation / toggle command.        *)
(*                                                                         *)
(* The host engine (RPM.Main.loaded, RPM.Manager.Stack.isLoading, the      *)
(* keysPressed array and the three notification entry points) and the      *)
(* browser (timer table, DOM body) are the environment: their state is     *)
(* part of the model, the notifications and timer calls a handler makes    *)
(* are logged in `calls`.                                                  *)
(***************************************************************************)
EXTENDS Integers, Sequences, FiniteSets

\* ------------------------------------------------------------------ bounds
\* No new contact is taken while this many timers are live.
MaxTimers == 4
\* Number of document-level pointerup listeners the model lets accumulate.
MaxListeners == 2
\* The hold observer (ghost) follows a held key for this many interval periods
\* after its delay.
MaxTicks == 2
\* How late a due timer callback is (the main thread was busy) is recorded up
\* to this many quanta; a callback may run later than that.
MaxLate == 1

\* ------------------------------------------------------- program constants
DPAD_ID == "rpm-mobile-dpad"
ABXY_ID == "rpm-mobile-abxy"
REPEAT_DELAY == 180
REPEAT_INTERVAL == 60

\* KEY_CODES with every plugin parameter absent: the fallback defaults.
KEY_CODES ==
    [up |-> 87, down |-> 83, left |-> 65, right |-> 68,
     action |-> 13, cancel |-> 27, buttonX |-> 13, buttonY |-> 27]

\* The button descriptors of mountDPad, in forEach order.
DPadButtons ==
    << [id |-> "dpad-up",    keyCode |-> KEY_CODES.up],
       [id |-> "dpad-left",  keyCode |-> KEY_CODES.left],
       [id |-> "dpad-right", keyCode |-> KEY_CODES.right],
       [id |-> "dpad-down",  keyCode |-> KEY_CODES.down] >>

\* The button descriptors of mountABXY, in forEach order.
ABXYButtons ==
    << [id |-> "button-y", keyCode |-> KEY_CODES.buttonY],
       [id |-> "button-x", keyCode |-> KEY_CODES.buttonX],
       [id |-> "button-b", keyCode |-> KEY_CODES.cancel],
       [id |-> "button-a", keyCode |-> KEY_CODES.action] >>

Range(s) == {s[i] : i \in DOMAIN s}

KeyCodes == {b.keyCode : b \in Range(DPadButtons) \cup Range(ABXYButtons)}

\* ------------------------------------------------------------------ inputs
\* Pointer ids of the contacts the environment produces.
Pointers == {1, 2}
\* Buttons the environment touches: two d-pad buttons with distinct key
\* codes; two contacts on one button share its key code.
TouchedButtons == {"dpad-up", "dpad-left"}
\* Key codes the host's own keyboard handler presses and releases.
HostKeys == {KEY_CODES.up}
\* Virtual time advances in steps of one repeat interval.
Quantum == REPEAT_INTERVAL
MaxElapsed == REPEAT_DELAY + MaxTicks * REPEAT_INTERVAL

\* pointerToKey.get(id) of an absent entry; a timer field holding null.
Undefined == -1
Null == 0

VARIABLES
    showGamepad,    \* the module-scoped show/hide flag
    pointerToKey,   \* Map pointerId -> keyCode (Undefined: no entry)
    activeRepeats,  \* Map keyCode -> [delay, interval] (domain: the entries)
    keysPressed,    \* RPM.Common.Inputs.keysPressed (host-owned array)
    loaded,         \* RPM.Main.loaded
    loading,        \* RPM.Manager.Stack.isLoading()
    timers,         \* the browser's live timers
    body,           \* the containers appended to document.body, in order
    docListeners,   \* number of document-level pointerup listeners
    readyState,     \* document.readyState
    calls,          \* host notifications and timer calls made by the last step
    hold,           \* ghost: per key code, time and ticks since an undisturbed press
    missed,         \* ghost: handles of the intervals that ran a tick without notifying
    pressOk         \* ghost: per pointer, the pressKey of its gesture ran with the host ready

vars == << showGamepad, pointerToKey, activeRepeats, keysPressed, loaded, loading,
           timers, body, docListeners, readyState, calls, hold, missed, pressOk >>

\* ------------------------------------------------------------- the bridge
\* The state the bridge functions read and write, as one record.
World ==
    [pointerToKey |-> pointerToKey, activeRepeats |-> activeRepeats,
     keysPressed |-> keysPressed, loaded |-> loaded, loading |-> loading,
     timers |-> timers, calls |-> << >>]

Commit(w) ==
    /\ pointerToKey' = w.pointerToKey
    /\ activeRepeats' = w.activeRepeats
    /\ keysPressed' = w.keysPressed
    /\ loaded' = w.loaded
    /\ loading' = w.loading
    /\ timers' = w.timers
    /\ calls' = w.calls

Call(w, fn, arg) == [w EXCEPT !.calls = Append(@, [fn |-> fn, arg |-> arg])]

\* Mutant of isReady: the scene stack's loading flag is not consulted.
isReadyIgnoresLoading(w) == w.loaded

isReady(w) == w.loaded /\ ~w.loading

includes(seq, x) == \E i \in DOMAIN seq : seq[i] = x

\* Array.prototype.indexOf, 1-based; 0 when absent.
indexOf(seq, x) ==
    IF includes(seq, x)
    THEN CHOOSE i \in DOMAIN seq : seq[i] = x /\ \A j \in 1..(i - 1) : seq[j] # x
    ELSE 0

\* Array.prototype.splice(index, 1)
splice1(seq, i) == SubSeq(seq, 1, i - 1) \o SubSeq(seq, i + 1, Len(seq))

\* window.clearTimeout / window.clearInterval: the timer with that handle dies.
clearTimer(w, fn, id) ==
    Call([w EXCEPT !.timers = {t \in @ : t.id # id}], fn, id)

\* The handle of a new timer: an integer greater than zero that no live
\* timer has (the smallest one).
newHandle(w) ==
    CHOOSE id \in 1..(Cardinality(w.timers) + 1) :
        /\ \A t \in w.timers : t.id # id
        /\ \A j \in 1..(id - 1) : \E t \in w.timers : t.id = j

\* window.setTimeout / window.setInterval: a new live timer with a new handle.
\* `stale` is a ghost: the callback belongs to a press that was released
\* while its delay timer was pending.
setTimer(w, fn, kind, keyCode, ms, stale) ==
    Call([w EXCEPT
            !.timers = @ \cup {[id |-> newHandle(w), kind |-> kind, keyCode |-> keyCode,
                                remaining |-> ms, stale |-> stale]}],
         fn, newHandle(w))

MapSet(m, k, v) == [x \in DOMAIN m \cup {k} |-> IF x = k THEN v ELSE m[x]]
MapDelete(m, k) == [x \in DOMAIN m \ {k} |-> m[x]]

\* Mutant of clearRepeat: the interval handle is dropped without clearInterval.
clearRepeatKeepsInterval(w, keyCode) ==
    IF keyCode \notin DOMAIN w.activeRepeats
    THEN w
    ELSE LET repeatTimers == w.activeRepeats[keyCode]
             w1 == IF repeatTimers.delay # Null
                   THEN clearTimer(w, "clearTimeout", repeatTimers.delay)
                   ELSE w
         IN  [w1 EXCEPT !.activeRepeats = MapDelete(@, keyCode)]

\* Mutant of clearRepeat: the delay handle is dropped without clearTimeout.
clearRepeatKeepsDelay(w, keyCode) ==
    IF keyCode \notin DOMAIN w.activeRepeats
    THEN w
    ELSE LET repeatTimers == w.activeRepeats[keyCode]
             w2 == IF repeatTimers.interval # Null
                   THEN clearTimer(w, "clearInterval", repeatTimers.interval)
                   ELSE w
         IN  [w2 EXCEPT !.activeRepeats = MapDelete(@, keyCode)]

clearRepeat(w, keyCode) ==
    IF keyCode \notin DOMAIN w.activeRepeats
    THEN w
    ELSE LET repeatTimers == w.activeRepeats[keyCode]
             w1 == IF repeatTimers.delay # Null
                   THEN clearTimer(w, "clearTimeout", repeatTimers.delay)
                   ELSE w
             w2 == IF repeatTimers.interval # Null
                   THEN clearTimer(w1, "clearInterval", repeatTimers.interval)
                   ELSE w1
         IN  [w2 EXCEPT !.activeRepeats = MapDelete(@, keyCode)]

\* Mutant of pressKey: the timers of an earlier press are not cleared.
pressKeyNoClear(w, keyCode) ==
    IF ~isReady(w)
    THEN w
    ELSE LET w1 == IF ~includes(w.keysPressed, keyCode)
                   THEN Call([w EXCEPT !.keysPressed = Append(@, keyCode)],
                             "onKeyPressed", keyCode)
                   ELSE w
             w2 == Call(w1, "onKeyPressedAndRepeat", keyCode)
             w4 == setTimer(w2, "setTimeout", "timeout", keyCode, REPEAT_DELAY, FALSE)
         IN  [w4 EXCEPT !.activeRepeats =
                 MapSet(@, keyCode, [delay |-> newHandle(w2), interval |-> Null])]

\* Mutant of pressKey: the delay timer is armed with the interval's period.
pressKeySwappedDelay(w, keyCode) ==
    IF ~isReady(w)
    THEN w
    ELSE LET w1 == IF ~includes(w.keysPressed, keyCode)
                   THEN Call([w EXCEPT !.keysPressed = Append(@, keyCode)],
                             "onKeyPressed", keyCode)
                   ELSE w
             w2 == Call(w1, "onKeyPressedAndRepeat", keyCode)
             w3 == clearRepeat(w2, keyCode)
             w4 == setTimer(w3, "setTimeout", "timeout", keyCode, REPEAT_INTERVAL, FALSE)
         IN  [w4 EXCEPT !.activeRepeats =
                 MapSet(@, keyCode, [delay |-> newHandle(w3), interval |-> Null])]

\* Mutant of pressKey: the includes() guard is missing.
pressKeyNoGuard(w, keyCode) ==
    IF ~isReady(w)
    THEN w
    ELSE LET w1 == Call([w EXCEPT !.keysPressed = Append(@, keyCode)],
                        "onKeyPressed", keyCode)
             w2 == Call(w1, "onKeyPressedAndRepeat", keyCode)
             w3 == clearRepeat(w2, keyCode)
             w4 == setTimer(w3, "setTimeout", "timeout", keyCode, REPEAT_DELAY, FALSE)
         IN  [w4 EXCEPT !.activeRepeats =
                 MapSet(@, keyCode, [delay |-> newHandle(w3), interval |-> Null])]

pressKey(w, keyCode) ==
    IF ~isReady(w)
    THEN w
    ELSE LET w1 == IF ~includes(w.keysPressed, keyCode)
                   THEN Call([w EXCEPT !.keysPressed = Append(@, keyCode)],
                             "onKeyPressed", keyCode)
                   ELSE w
             w2 == Call(w1, "onKeyPressedAndRepeat", keyCode)
             w3 == clearRepeat(w2, keyCode)
             w4 == setTimer(w3, "setTimeout", "timeout", keyCode, REPEAT_DELAY, FALSE)
         IN  [w4 EXCEPT !.activeRepeats =
                 MapSet(@, keyCode, [delay |-> newHandle(w3), interval |-> Null])]

\* Mutant of releaseKey: the last pressed key is removed (pop) instead of
\* the one at indexOf(keyCode).
releaseKeyPop(w, keyCode) ==
    IF ~isReady(w)
    THEN w
    ELSE LET w1 == clearRepeat(w, keyCode)
             index == indexOf(w1.keysPressed, keyCode)
             w2 == IF index # 0
                   THEN [w1 EXCEPT !.keysPressed = splice1(@, Len(@))]
                   ELSE w1
         IN  Call(w2, "onKeyReleased", keyCode)

\* Mutant of releaseKey: "key released" is notified only when the key code
\* was found in the set.
releaseKeyNotifyIfFound(w, keyCode) ==
    IF ~isReady(w)
    THEN w
    ELSE LET w1 == clearRepeat(w, keyCode)
             index == indexOf(w1.keysPressed, keyCode)
         IN  IF index # 0
             THEN Call([w1 EXCEPT !.keysPressed = splice1(@, index)],
                       "onKeyReleased", keyCode)
             ELSE w1

releaseKey(w, keyCode) ==
    IF ~isReady(w)
    THEN w
    ELSE LET w1 == clearRepeat(w, keyCode)
             index == indexOf(w1.keysPressed, keyCode)
             w2 == IF index # 0
                   THEN [w1 EXCEPT !.keysPressed = splice1(@, index)]
                   ELSE w1
         IN  Call(w2, "onKeyReleased", keyCode)

\* Mutant of delayCallback: the interval handle is not recorded.
delayCallbackNoRecord(w, t) ==
    LET w1 == [w EXCEPT !.timers = @ \ {t}]
    IN  setTimer(w1, "setInterval", "interval", t.keyCode, REPEAT_INTERVAL, t.stale)

\* The callback of the delay timer armed by pressKey.
delayCallback(w, t) ==
    LET w1 == [w EXCEPT !.timers = @ \ {t}]
        w2 == setTimer(w1, "setInterval", "interval", t.keyCode, REPEAT_INTERVAL, t.stale)
    IN  [w2 EXCEPT !.activeRepeats =
            MapSet(@, t.keyCode, [delay |-> Null, interval |-> newHandle(w1)])]

\* The callback of the interval timer; the browser re-arms the timer.
\* Mutant of intervalCallback: a tick that finds the host not ready or the
\* key code absent stops the interval.
intervalCallbackStopsOnFail(w, t) ==
    IF isReady(w) /\ includes(w.keysPressed, t.keyCode)
    THEN Call([w EXCEPT !.timers =
                  (@ \ {t}) \cup {[t EXCEPT !.remaining = REPEAT_INTERVAL]}],
              "onKeyPressedAndRepeat", t.keyCode)
    ELSE [w EXCEPT !.timers = @ \ {t}]

intervalCallback(w, t) ==
    LET w1 == [w EXCEPT !.timers =
                  (@ \ {t}) \cup {[t EXCEPT !.remaining = REPEAT_INTERVAL]}]
    IN  IF isReady(w1) /\ includes(w1.keysPressed, t.keyCode)
        THEN Call(w1, "onKeyPressedAndRepeat", t.keyCode)
        ELSE w1

\* -------------------------------------------------------- the touch surface
handlePointerDown(w, pointerId, keyCode) ==
    pressKey([w EXCEPT !.pointerToKey[pointerId] = keyCode], keyCode)

handlePointerUp(w, pointerId) ==
    LET activeKeyCode == w.pointerToKey[pointerId]
    IN  IF activeKeyCode = Undefined
        THEN w
        ELSE releaseKey([w EXCEPT !.pointerToKey[pointerId] = Undefined], activeKeyCode)

\* Mutant of globalPointerListener: the pointer's entry is not deleted.
globalPointerListenerNoDelete(w, pointerId) ==
    LET keyCode == w.pointerToKey[pointerId]
    IN  IF keyCode # Undefined THEN releaseKey(w, keyCode) ELSE w

\* One document-level pointerup listener (installGlobalPointerListener).
globalPointerListener(w, pointerId) ==
    LET keyCode == w.pointerToKey[pointerId]
    IN  IF keyCode # Undefined
        THEN releaseKey([w EXCEPT !.pointerToKey[pointerId] = Undefined], keyCode)
        ELSE w

\* The dispatch of a document-level pointerup to the n installed listeners.
RECURSIVE dispatchDocPointerUp(_, _, _)
dispatchDocPointerUp(w, pointerId, n) ==
    IF n = 0
    THEN w
    ELSE dispatchDocPointerUp(globalPointerListener(w, pointerId), pointerId, n - 1)

\* document.getElementById(id) finds a container
getElementById(d, id) == \E i \in DOMAIN d.body : d.body[i].id = id

\* Mutant of mountDPad: the getElementById guard is missing.
mountDPadNoGuard(d) ==
    [d EXCEPT !.body = Append(@, [id |-> DPAD_ID, buttons |-> DPadButtons])]

mountDPad(d) ==
    IF getElementById(d, DPAD_ID)
    THEN d
    ELSE [d EXCEPT !.body = Append(@, [id |-> DPAD_ID, buttons |-> DPadButtons])]

mountABXY(d) ==
    IF getElementById(d, ABXY_ID)
    THEN d
    ELSE [d EXCEPT !.body = Append(@, [id |-> ABXY_ID, buttons |-> ABXYButtons])]

installGlobalPointerListener(d) == [d EXCEPT !.docListeners = @ + 1]

\* Mutant of activateMobileControls: the show/hide flag is not consulted.
activateAlways(d) ==
    installGlobalPointerListener(mountABXY(mountDPad(d)))

\* Mutant of activateMobileControls: a false flag unmounts the clusters.
activateOrUnmount(d) ==
    IF ~d.showGamepad
    THEN [d EXCEPT !.body = << >>]
    ELSE installGlobalPointerListener(mountABXY(mountDPad(d)))

activateMobileControls(d) ==
    IF ~d.showGamepad
    THEN d
    ELSE installGlobalPointerListener(mountABXY(mountDPad(d)))

\* The buttons in the document that take pointer events, with their key codes.
MountedButtons(b) == UNION {Range(b[i].buttons) : i \in DOMAIN b}

\* The hold ghost of a key that is not followed.
HoldOff == [elapsed |-> -1, ticks |-> 0, late |-> FALSE]

\* ------------------------------------------------------------------- Init
\* The state after the module is evaluated: the flag is the plugin
\* parameter, and activation has run if the document was already interactive.
Init ==
    /\ showGamepad \in BOOLEAN
    /\ readyState \in {"loading", "interactive"}
    /\ LET d == [showGamepad |-> showGamepad, body |-> << >>, docListeners |-> 0]
           d1 == IF readyState = "interactive" THEN activateMobileControls(d) ELSE d
       IN  body = d1.body /\ docListeners = d1.docListeners
    /\ pointerToKey = [p \in Pointers |-> Undefined]
    /\ activeRepeats = << >>
    /\ keysPressed = << >>
    /\ loaded = FALSE
    /\ loading = FALSE
    /\ timers = {}
    /\ calls = << >>
    /\ hold = [k \in KeyCodes |-> HoldOff]
    /\ missed = {}
    /\ pressOk = [p \in Pointers |-> FALSE]

\* ---------------------------------------------------------------- actions
DomUnchanged == UNCHANGED << showGamepad, body, docListeners, readyState >>

\* window "DOMContentLoaded" (registered with once: true)
DOMContentLoaded ==
    /\ readyState = "loading"
    /\ readyState' = "interactive"
    /\ LET d == activateMobileControls(
                  [showGamepad |-> showGamepad, body |-> body, docListeners |-> docListeners])
       IN  body' = d.body /\ docListeners' = d.docListeners
    /\ calls' = << >>
    /\ UNCHANGED << showGamepad, pointerToKey, activeRepeats, keysPressed, loaded, loading,
                    timers >>

\* The "Toggle Gamepad View" command
ToggleGamepadView ==
    /\ showGamepad \/ docListeners < MaxListeners
    /\ LET d == activateMobileControls(
                  [showGamepad |-> ~showGamepad, body |-> body, docListeners |-> docListeners])
       IN  showGamepad' = d.showGamepad /\ body' = d.body /\ docListeners' = d.docListeners
    /\ calls' = << >>
    /\ UNCHANGED << readyState, pointerToKey, activeRepeats, keysPressed, loaded, loading,
                    timers >>

\* The mounted buttons the environment touches.
Touchable == {b \in MountedButtons(body) : b.id \in TouchedButtons}

\* pointerdown of a new contact on a mounted button. A pointer id has one
\* active contact at a time and every contact's end reaches handlePointerUp
\* or a document listener before the id is used again, so the id is untracked.
PointerDown(p, b) ==
    /\ b \in Touchable
    /\ pointerToKey[p] = Undefined
    /\ Cardinality(timers) < MaxTimers
    /\ LET w == handlePointerDown(World, p, b.keyCode)
       IN  Commit(w)
    /\ DomUnchanged

\* Ghost: when key code k is released with the host ready while a delay
\* timer of k is pending, whatever timer of k outlives the release is stale.
MarkStale(w0, w, k) ==
    IF isReady(w0) /\ k # Undefined
       /\ \E t \in w0.timers : t.keyCode = k /\ t.kind = "timeout"
    THEN [w EXCEPT !.timers =
             {IF t.keyCode = k THEN [t EXCEPT !.stale = TRUE] ELSE t : t \in @}]
    ELSE w

\* pointerup, pointercancel or lostpointercapture on a mounted button: the
\* three events are bound to the same handler, which reads only the pointer id.
ButtonPointerEnd(p) ==
    /\ Touchable # {}
    /\ LET w == MarkStale(World, handlePointerUp(World, p), pointerToKey[p])
       IN  Commit(w)
    /\ DomUnchanged

\* pointerup reaching the document: every installed listener runs
DocPointerUp(p) ==
    /\ docListeners > 0
    /\ LET w == MarkStale(World, dispatchDocPointerUp(World, p, docListeners),
                          pointerToKey[p])
       IN  Commit(w)
    /\ DomUnchanged

\* A delay timer is due: its callback arms the interval
DelayFire(t) ==
    /\ t \in timers
    /\ t.kind = "timeout"
    /\ t.remaining <= 0
    /\ LET w == delayCallback(World, t)
       IN  Commit(w)
    /\ DomUnchanged

\* An interval timer is due: one tick
IntervalTick(t) ==
    /\ t \in timers
    /\ t.kind = "interval"
    /\ t.remaining <= 0
    /\ LET w == intervalCallback(World, t)
       IN  Commit(w)
    /\ DomUnchanged

\* Time passes while a timer is live. A due callback need not run at once
\* (the main thread may be busy): time also passes while a timer is due, its
\* remaining time going negative; the lateness is recorded up to MaxLate quanta.
Advance ==
    /\ timers # {}
    /\ timers' = {[t EXCEPT !.remaining =
                      IF @ - Quantum >= -(MaxLate * Quantum)
                      THEN @ - Quantum ELSE -(MaxLate * Quantum)] : t \in timers}
    /\ calls' = << >>
    /\ UNCHANGED << pointerToKey, activeRepeats, keysPressed, loaded, loading >>
    /\ DomUnchanged

HostStep(w) ==
    /\ Commit(w)
    /\ DomUnchanged

\* The host finishes loading its main content.
HostMainLoaded ==
    /\ ~loaded
    /\ HostStep([World EXCEPT !.loaded = TRUE])

\* The host starts / finishes loading a scene.
HostSetLoading(v) ==
    /\ loading # v
    /\ HostStep([World EXCEPT !.loading = v])

\* The host's own keyboard handler: key down of a key not yet held.
HostKeyDown(k) ==
    /\ ~includes(keysPressed, k)
    /\ HostStep([World EXCEPT !.keysPressed = Append(@, k)])

\* The host's own keyboard handler: key up.
HostKeyUp(k) ==
    /\ includes(keysPressed, k)
    /\ HostStep([World EXCEPT !.keysPressed = splice1(@, indexOf(@, k))])

\* ------------------------------------------------------------------ ghosts
\* No ghost is followed.
NoGhost == UNCHANGED << hold, missed, pressOk >>

\* The "key pressed-or-repeat" notifications for k among the calls c of a step.
Repeats(c, k) ==
    Cardinality({i \in DOMAIN c : c[i] = [fn |-> "onKeyPressedAndRepeat", arg |-> k]})

\* The hold ghost after a handler, callback or host step. A key is followed
\* from a press handled with the host ready, and only while it stays in
\* keysPressed and the host stays ready; the "key pressed-or-repeat"
\* notifications of the steps that are not a press of the key are counted.
TrackHold ==
    hold' = [k \in KeyCodes |->
                LET h == IF includes(keysPressed', k) /\ loaded' /\ ~loading'
                         THEN hold[k] ELSE HoldOff
                IN  IF \E p \in Pointers :
                          pointerToKey[p] = Undefined /\ pointerToKey'[p] = k
                    THEN IF isReady(World)
                         THEN [elapsed |-> 0, ticks |-> 0, late |-> FALSE] ELSE h
                    ELSE IF h.elapsed >= 0
                         THEN [h EXCEPT !.ticks = @ + Repeats(calls', k)] ELSE h]

\* The hold ghost after Quantum ms have passed: a followed key is late once
\* time passes while one of its timers is due. A key whose callbacks ran on
\* time is followed for MaxElapsed ms, a late one until REPEAT_DELAY +
\* REPEAT_INTERVAL ms have elapsed.
PassHold ==
    hold' = [k \in KeyCodes |->
                LET late == hold[k].late
                              \/ \E t \in timers : t.keyCode = k /\ t.remaining <= 0
                    elapsed == hold[k].elapsed + Quantum
                IN  IF hold[k].elapsed < 0 THEN hold[k]
                    ELSE IF elapsed > MaxElapsed THEN HoldOff
                    ELSE IF late /\ elapsed >= REPEAT_DELAY + REPEAT_INTERVAL THEN HoldOff
                    ELSE [hold[k] EXCEPT !.elapsed = elapsed, !.late = late]]

\* The intervals whose tick ran in this step: due before, re-armed after.
Ticked ==
    {t \in timers :
        /\ t.kind = "interval" /\ t.remaining <= 0
        /\ \E u \in timers' :
              u.id = t.id /\ u.kind = "interval" /\ u.remaining = REPEAT_INTERVAL}

\* The missed ghost after a step: the handle of an interval that has run a
\* tick without notifying, for as long as that interval is live.
TrackMissed ==
    missed' = {id \in missed :
                  /\ \E t \in timers : t.id = id /\ t.kind = "interval"
                  /\ \E u \in timers' : u.id = id /\ u.kind = "interval"}
              \cup {t.id : t \in {u \in Ticked : calls' = << >>}}

\* The gesture ghost after a step: the gesture of a pointer that becomes
\* tracked in the step took effect iff the pressKey of that step passed its
\* isReady() guard; an untracked pointer has no gesture.
TrackGesture ==
    pressOk' = [p \in Pointers |->
                   IF pointerToKey'[p] = Undefined THEN FALSE
                   ELSE IF pointerToKey[p] = Undefined THEN isReady(World)
                   ELSE pressOk[p]]

\* ---------------------------------------------------------- specifications
\* One step of the program: a handler, a timer callback or a host step, or
\* the passage of time. No ghost is followed.
Next ==
    \/ DOMContentLoaded /\ NoGhost
    \/ ToggleGamepadView /\ NoGhost
    \/ \E p \in Pointers, b \in Touchable : PointerDown(p, b) /\ NoGhost
    \/ \E p \in Pointers : ButtonPointerEnd(p) /\ NoGhost
    \/ \E p \in Pointers : DocPointerUp(p) /\ NoGhost
    \/ \E t \in timers : DelayFire(t) /\ NoGhost
    \/ \E t \in timers : IntervalTick(t) /\ NoGhost
    \/ Advance /\ NoGhost
    \/ HostMainLoaded /\ NoGhost
    \/ \E v \in BOOLEAN : HostSetLoading(v) /\ NoGhost
    \/ \E k \in HostKeys : HostKeyDown(k) /\ NoGhost
    \/ \E k \in HostKeys : HostKeyUp(k) /\ NoGhost

Spec == Init /\ [][Next]_vars

\* The ghosts after a step, the hold ghost followed.
HoldHandled == TrackHold /\ UNCHANGED << missed, pressOk >>
HoldPassed == PassHold /\ UNCHANGED << missed, pressOk >>

\* The same program with the hold ghost followed.
NextHold ==
    \/ DOMContentLoaded /\ HoldHandled
    \/ ToggleGamepadView /\ HoldHandled
    \/ \E p \in Pointers, b \in Touchable : PointerDown(p, b) /\ HoldHandled
    \/ \E p \in Pointers : ButtonPointerEnd(p) /\ HoldHandled
    \/ \E p \in Pointers : DocPointerUp(p) /\ HoldHandled
    \/ \E t \in timers : DelayFire(t) /\ HoldHandled
    \/ \E t \in timers : IntervalTick(t) /\ HoldHandled
    \/ Advance /\ HoldPassed
    \/ HostMainLoaded /\ HoldHandled
    \/ \E v \in BOOLEAN : HostSetLoading(v) /\ HoldHandled
    \/ \E k \in HostKeys : HostKeyDown(k) /\ HoldHandled
    \/ \E k \in HostKeys : HostKeyUp(k) /\ HoldHandled

SpecHold == Init /\ [][NextHold]_vars

\* The ghosts after a step, the missed ghost followed.
TickObserved == TrackMissed /\ UNCHANGED << hold, pressOk >>

\* The same program with the missed ghost followed.
NextTick ==
    \/ DOMContentLoaded /\ TickObserved
    \/ ToggleGamepadView /\ TickObserved
    \/ \E p \in Pointers, b \in Touchable : PointerDown(p, b) /\ TickObserved
    \/ \E p \in Pointers : ButtonPointerEnd(p) /\ TickObserved
    \/ \E p \in Pointers : DocPointerUp(p) /\ TickObserved
    \/ \E t \in timers : DelayFire(t) /\ TickObserved
    \/ \E t \in timers : IntervalTick(t) /\ TickObserved
    \/ Advance /\ TickObserved
    \/ HostMainLoaded /\ TickObserved
    \/ \E v \in BOOLEAN : HostSetLoading(v) /\ TickObserved
    \/ \E k \in HostKeys : HostKeyDown(k) /\ TickObserved
    \/ \E k \in HostKeys : HostKeyUp(k) /\ TickObserved

SpecTick == Init /\ [][NextTick]_vars

\* The ghosts after a step, the gesture ghost followed.
GestureObserved == TrackGesture /\ UNCHANGED << hold, missed >>

\* The same program with the gesture ghost followed.
NextGesture ==
    \/ DOMContentLoaded /\ GestureObserved
    \/ ToggleGamepadView /\ GestureObserved
    \/ \E p \in Pointers, b \in Touchable : PointerDown(p, b) /\ GestureObserved
    \/ \E p \in Pointers : ButtonPointerEnd(p) /\ GestureObserved
    \/ \E p \in Pointers : DocPointerUp(p) /\ GestureObserved
    \/ \E t \in timers : DelayFire(t) /\ GestureObserved
    \/ \E t \in timers : IntervalTick(t) /\ GestureObserved
    \/ Advance /\ GestureObserved
    \/ HostMainLoaded /\ GestureObserved
    \/ \E v \in BOOLEAN : HostSetLoading(v) /\ GestureObserved
    \/ \E k \in HostKeys : HostKeyDown(k) /\ GestureObserved
    \/ \E k \in HostKeys : HostKeyUp(k) /\ GestureObserved

SpecGesture == Init /\ [][NextGesture]_vars

\* ------------------------------------------------------------ observations
Ready == loaded /\ ~loading
InSet(k) == \E i \in DOMAIN keysPressed : keysPressed[i] = k
Occurrences(seq, x) == Cardinality({i \in DOMAIN seq : seq[i] = x})
TimersOf(k) == {t \in timers : t.keyCode = k}
\* How often the last step called fn(arg).
Called(fn, arg) == Occurrences(calls, [fn |-> fn, arg |-> arg])
CalledFn(fn) == Cardinality({i \in DOMAIN calls : calls[i].fn = fn})
Tracked(p) == pointerToKey[p] # Undefined
\* In this step pointer p, tracked on key code k, leaves pointerToKey: one of
\* its end events (button pointerup, pointercancel, lostpointercapture or a
\* document-level pointerup) was handled.
GestureEnds(p, k) == pointerToKey[p] = k /\ pointerToKey'[p] = Undefined
\* In this step a pointerdown of pointer p on a button of key code k was handled.
GestureStarts(p, k) == pointerToKey[p] = Undefined /\ pointerToKey'[p] = k
UpKey == KEY_CODES.up
LeftKey == KEY_CODES.left

\* C1: for every key code k, right after a step in which releaseKey(k) ran
\* with the host ready (it notified "key released" for k), k is not in the
\* Pressed-Keys Set, no delay or interval timer of k is live and activeRepeats
\* has no entry for k -- whether the delay timer had fired or not.
C1_PressReleaseLeavesNothing ==
    \A k \in KeyCodes :
        Called("onKeyReleased", k) > 0 =>
            /\ ~InSet(k)
            /\ TimersOf(k) = {}
            /\ k \notin DOMAIN activeRepeats

\* C1 witness: a release that came after the delay timer had fired (it
\* cancelled the running interval) and left nothing of the key behind.
C1_Witness ==
    \E k \in KeyCodes :
        /\ Called("onKeyReleased", k) = 1
        /\ CalledFn("clearInterval") = 1
        /\ ~InSet(k)
        /\ TimersOf(k) = {}

\* C2 (as claimed): whenever an end event removes a tracked pointer from
\* pointerToKey, also with the host not ready, the key code it drove has no
\* timer left and is no longer in the Pressed-Keys Set after the handler
\* (stated for the key codes the bridge has armed a repeat entry for).
C2_EveryEndCleansUp ==
    [][\A p \in Pointers, k \in KeyCodes :
          (/\ pointerToKey[p] = k
           /\ k \in DOMAIN activeRepeats
           /\ pointerToKey'[p] = Undefined) =>
              /\ ~InSet(k)'
              /\ TimersOf(k)' = {}]_vars

\* C3 (as claimed): while another pointer is still tracked on key code k,
\* ending one pointer's gesture keeps k in the Pressed-Keys Set, notifies no
\* "key released" for k and leaves k's repeat timer armed.
C3_SharedKeySurvivesOneRelease ==
    [][\A p, q \in Pointers, k \in KeyCodes :
          (/\ p # q
           /\ pointerToKey[p] = k
           /\ pointerToKey[q] = k
           /\ pointerToKey'[p] = Undefined
           /\ pointerToKey'[q] = k) =>
              /\ InSet(k) => InSet(k)'
              /\ Called("onKeyReleased", k)' = 0
              /\ TimersOf(k)' = TimersOf(k)]_vars

\* C4: with the host ready, a step notifies "key released" exactly once
\* for each pointer whose gesture it ends, for that pointer's key code, and
\* never otherwise: the end event that finds the pointer tracked releases it
\* once (also when several document-level listeners run), and every further
\* end event of that pointer finds it untracked and releases nothing. Any
\* end event handled with the host ready ends the gesture, and a tracked
\* pointer always has a document-level listener installed.
C4_ReleasedExactlyOnce ==
    /\ [](\A p \in Pointers :
             Tracked(p) =>
                 /\ docListeners >= 1
                 /\ handlePointerUp(World, p).pointerToKey[p] = Undefined
                 /\ dispatchDocPointerUp(World, p, docListeners).pointerToKey[p] = Undefined)
    /\ [][Ready =>
             \A k \in KeyCodes :
                 Called("onKeyReleased", k)' =
                     Cardinality({p \in Pointers : GestureEnds(p, k)})]_vars

\* C4 witness: two document-level listeners are installed and the last step
\* released a gesture exactly once.
C4_Witness ==
    /\ docListeners >= 2
    /\ CalledFn("onKeyReleased") = 1
    /\ \A p \in Pointers : ~Tracked(p)

\* C5: a pointerdown with the host ready leaves its key code exactly once in
\* the Pressed-Keys Set; "key pressed" is notified only if the key code was
\* absent before (so not by a second press), "key pressed-or-repeat" is
\* notified once by every press; every timer the key code had is cancelled
\* and exactly one delay timer with the full REPEAT_DELAY is pending.
C5_RepressRestartsDelay ==
    [][\A p \in Pointers, k \in KeyCodes :
          (GestureStarts(p, k) /\ Ready) =>
              /\ Occurrences(keysPressed, k)' = 1
              /\ InSet(k) => keysPressed' = keysPressed
              /\ Called("onKeyPressed", k)' = (IF InSet(k) THEN 0 ELSE 1)
              /\ Called("onKeyPressedAndRepeat", k)' = 1
              /\ \A t \in TimersOf(k) :
                    Called(IF t.kind = "timeout" THEN "clearTimeout" ELSE "clearInterval",
                           t.id)' = 1
              /\ \E t \in timers' :
                    /\ TimersOf(k)' = {t}
                    /\ t.kind = "timeout"
                    /\ t.remaining = REPEAT_DELAY
                    /\ Called("setTimeout", t.id)' = 1
                    /\ activeRepeats'[k] = [delay |-> t.id, interval |-> Null]]_vars

\* C5 witness: both pointers are down on the same key code and the second
\* press arrived after the interval had started: it cancelled the interval,
\* did not notify "key pressed" and armed a fresh delay timer.
C5_Witness ==
    /\ pointerToKey[1] = LeftKey
    /\ pointerToKey[2] = LeftKey
    /\ keysPressed = << LeftKey >>
    /\ CalledFn("clearInterval") = 1
    /\ CalledFn("setTimeout") = 1
    /\ CalledFn("onKeyPressed") = 0
    /\ Called("onKeyPressedAndRepeat", LeftKey) = 1

\* C6 (as claimed): once REPEAT_DELAY ms have passed since an undisturbed
\* press of k (k stayed in the set, the host stayed ready), every callback
\* of k ran on time and every due timer of k has run, a timer-driven "key
\* pressed-or-repeat" has been notified, and one more after each further
\* REPEAT_INTERVAL ms.
C6_FirstRepeatAtDelay ==
    \A k \in KeyCodes :
        (/\ hold[k].elapsed >= REPEAT_DELAY
         /\ ~hold[k].late
         /\ \A t \in TimersOf(k) : t.remaining > 0) =>
            hold[k].ticks >= (hold[k].elapsed - REPEAT_DELAY) \div REPEAT_INTERVAL + 1

\* C6 (amended): the delay callback only arms the interval, so no
\* timer-driven notification for k is emitted before REPEAT_DELAY +
\* REPEAT_INTERVAL ms have elapsed since the press; and when every callback
\* of k ran on time, once every due timer of k has run the number of
\* timer-driven notifications is 0 before REPEAT_DELAY + REPEAT_INTERVAL ms
\* and (elapsed - REPEAT_DELAY) \div REPEAT_INTERVAL from then on: the first
\* at REPEAT_DELAY + REPEAT_INTERVAL ms, one more after each further
\* REPEAT_INTERVAL ms.
C6_FirstRepeatAfterDelayPlusInterval ==
    \A k \in KeyCodes :
        hold[k].elapsed >= 0 =>
            /\ hold[k].elapsed < REPEAT_DELAY + REPEAT_INTERVAL => hold[k].ticks = 0
            /\ (~hold[k].late /\ \A t \in TimersOf(k) : t.remaining > 0) =>
                  hold[k].ticks =
                      IF hold[k].elapsed < REPEAT_DELAY + REPEAT_INTERVAL
                      THEN 0
                      ELSE (hold[k].elapsed - REPEAT_DELAY) \div REPEAT_INTERVAL

\* C6 witness: a key held undisturbed for REPEAT_DELAY + 2 * REPEAT_INTERVAL
\* ms whose callbacks ran on time and whose interval has ticked twice.
C6_Witness ==
    \E k \in KeyCodes :
        /\ hold[k].elapsed = REPEAT_DELAY + 2 * REPEAT_INTERVAL
        /\ hold[k].ticks = 2
        /\ ~hold[k].late
        /\ \A t \in TimersOf(k) : t.remaining > 0

\* C7: a press released (host ready) while its delay timer was pending
\* leaves no timer behind: no callback of that press is live in any later
\* state, so none ever runs and no timer-driven notification of that press
\* is emitted; the release itself notifies only "key released".
C7_EarlyReleaseSilencesRepeats ==
    /\ \A t \in timers : ~t.stale
    /\ \A k \in KeyCodes :
          Called("onKeyReleased", k) > 0 => Called("onKeyPressedAndRepeat", k) = 0

\* C7 witness: the last step released a key whose delay timer was still
\* pending (it cancelled the timeout), and no timer of the key is left.
C7_Witness ==
    \E k \in KeyCodes :
        /\ Called("onKeyReleased", k) = 1
        /\ CalledFn("clearTimeout") = 1
        /\ TimersOf(k) = {}

\* C8: a pointerdown handled while the host is not ready (main content not
\* loaded, or a scene loading) leaves the Pressed-Keys Set, activeRepeats and
\* the timers unchanged and notifies nothing; it only records the pointer.
C8_PressNotReadyIsNoOp ==
    [][\A p \in Pointers, k \in KeyCodes :
          (GestureStarts(p, k) /\ ~Ready) =>
              /\ UNCHANGED << keysPressed, activeRepeats, timers >>
              /\ calls' = << >>]_vars

\* C8 witness: the main content was never loaded, a pointer is down on a
\* button, and nothing is pressed or armed.
C8_Witness ==
    /\ ~loaded
    /\ pointerToKey[1] = LeftKey
    /\ keysPressed = << >>
    /\ timers = {}
    /\ activeRepeats = << >>

\* C9: with pointer A tracked on "up" and pointer B tracked on "left", both
\* key codes pressed and armed and the host ready, the step that ends pointer
\* A's gesture removes only "up" and its timers and leaves the set membership
\* of "left", its timers, its activeRepeats entry and B's map entry unchanged;
\* and the pointerdown of B on "left" left "up" pressed, with its own timer.
C9_IndependentKeys ==
    [][\A a, b \in Pointers :
          /\ (/\ GestureEnds(a, UpKey)
              /\ pointerToKey[b] = LeftKey
              /\ Ready) =>
                 /\ ~InSet(UpKey)'
                 /\ TimersOf(UpKey)' = {}
                 /\ UpKey \notin DOMAIN activeRepeats'
                 /\ InSet(LeftKey)' = InSet(LeftKey)
                 /\ TimersOf(LeftKey)' = TimersOf(LeftKey)
                 /\ (LeftKey \in DOMAIN activeRepeats) = (LeftKey \in DOMAIN activeRepeats')
                 /\ LeftKey \in DOMAIN activeRepeats =>
                       activeRepeats'[LeftKey] = activeRepeats[LeftKey]
                 /\ pointerToKey'[b] = LeftKey
          /\ (/\ GestureStarts(b, LeftKey)
              /\ pointerToKey[a] = UpKey
              /\ Ready) =>
                 /\ InSet(LeftKey)'
                 /\ InSet(UpKey)' = InSet(UpKey)
                 /\ TimersOf(UpKey)' = TimersOf(UpKey)
                 /\ Cardinality(TimersOf(LeftKey))' = 1
                 /\ pointerToKey'[a] = UpKey]_vars

\* C9 witness: pointer 1's gesture on "up" was just released while pointer 2
\* still holds "left", which is pressed and has its timer.
C9_Witness ==
    /\ Called("onKeyReleased", UpKey) = 1
    /\ pointerToKey[1] = Undefined
    /\ pointerToKey[2] = LeftKey
    /\ keysPressed = << LeftKey >>
    /\ TimersOf(LeftKey) # {}
    /\ TimersOf(UpKey) = {}

\* C10: in every reachable state, for every key code k, at most one timer of
\* k is live, and the live timers are exactly the ones activeRepeats records:
\* an entry holds either a pending delay handle or a running interval handle,
\* never both and never neither, and every live timer is recorded under its
\* key code, so none is orphaned.
C10_OneRecordedTimerPerKey ==
    /\ \A t, u \in timers : t.id = u.id => t = u
    /\ \A k \in KeyCodes :
          /\ Cardinality(TimersOf(k)) <= 1
          /\ \A t \in TimersOf(k) :
                /\ k \in DOMAIN activeRepeats
                /\ activeRepeats[k] =
                      IF t.kind = "timeout"
                      THEN [delay |-> t.id, interval |-> Null]
                      ELSE [delay |-> Null, interval |-> t.id]
          /\ k \in DOMAIN activeRepeats => TimersOf(k) # {}

\* C10 witness: one key code has its interval running while another one,
\* pressed later, has its delay pending, each recorded in activeRepeats.
C10_Witness ==
    /\ \E t \in TimersOf(UpKey) : t.kind = "interval" /\ activeRepeats[UpKey].interval = t.id
    /\ \E t \in TimersOf(LeftKey) : t.kind = "timeout" /\ activeRepeats[LeftKey].delay = t.id

\* The containers in the document with a given id.
Containers(id) == {i \in DOMAIN body : body[i].id = id}
\* Running a mount function on the current document.
Dom == [showGamepad |-> showGamepad, body |-> body, docListeners |-> docListeners]

\* C11: after any sequence of activations and toggle commands the document
\* holds at most one container with id rpm-mobile-dpad and at most one with
\* id rpm-mobile-abxy, each with exactly four buttons (the four of its
\* cluster); mountDPad / mountABXY called when their container exists add no
\* DOM node; and the two containers are mounted together.
C11_MountIdempotent ==
    /\ Cardinality(Containers(DPAD_ID)) <= 1
    /\ Cardinality(Containers(ABXY_ID)) <= 1
    /\ Cardinality(Containers(DPAD_ID)) = Cardinality(Containers(ABXY_ID))
    /\ \A i \in DOMAIN body :
          /\ body[i].id \in {DPAD_ID, ABXY_ID}
          /\ Len(body[i].buttons) = 4
          /\ Cardinality(Range(body[i].buttons)) = 4
          /\ body[i].buttons = (IF body[i].id = DPAD_ID THEN DPadButtons ELSE ABXYButtons)
    /\ Containers(DPAD_ID) # {} => mountDPad(Dom).body = body
    /\ Containers(ABXY_ID) # {} => mountABXY(Dom).body = body

\* C11 witness: activation has run twice with the flag true (two document
\* listeners are installed) and the document holds one container of each id.
C11_Witness ==
    /\ docListeners = 2
    /\ Cardinality(Containers(DPAD_ID)) = 1
    /\ Cardinality(Containers(ABXY_ID)) = 1
    /\ Len(body) = 2

\* C12: no key code is ever twice in the Pressed-Keys Set, with the host
\* keyboard interleaving; appends by the bridge and "key pressed"
\* notifications correspond one to one: a step notifies "key pressed" for k
\* exactly when it is a ready pointerdown on k with k absent, and that step
\* appends k; a bridge step that lengthens the set appends one absent key
\* code and notifies "key pressed" for it; a ready pointerdown on k with k
\* present (put there by the bridge or by the host keyboard) adds nothing,
\* notifies no "key pressed", still notifies "key pressed-or-repeat" once
\* and arms the delay timer.
C12_NoDuplicateKey ==
    /\ [](\A k \in KeyCodes : Occurrences(keysPressed, k) <= 1)
    /\ [][/\ \A k \in KeyCodes :
                /\ Called("onKeyPressed", k)' =
                      (IF Ready /\ ~InSet(k) /\ \E p \in Pointers : GestureStarts(p, k)
                       THEN 1 ELSE 0)
                /\ Called("onKeyPressed", k)' = 1 => keysPressed' = Append(keysPressed, k)
                /\ (Ready /\ InSet(k) /\ \E p \in Pointers : GestureStarts(p, k)) =>
                      /\ keysPressed' = keysPressed
                      /\ CalledFn("onKeyPressed")' = 0
                      /\ Called("onKeyPressedAndRepeat", k)' = 1
                      /\ CalledFn("setTimeout")' = 1
                      /\ \E t \in timers' : t.keyCode = k /\ t.kind = "timeout"
          /\ (Len(keysPressed') > Len(keysPressed) /\ calls' # << >>) =>
                \E k \in KeyCodes :
                    /\ ~InSet(k)
                    /\ keysPressed' = Append(keysPressed, k)
                    /\ Called("onKeyPressed", k)' = 1]_vars

\* C12 witness: a ready pointerdown on the up button found its key code in
\* the set although the bridge had neither timer nor record for it (nothing
\* was cancelled), so the host keyboard had put it there: the step notified
\* only "key pressed-or-repeat" and armed the delay timer.
C12_Witness ==
    /\ pointerToKey[1] = UpKey
    /\ pointerToKey[2] = Undefined
    /\ keysPressed = << UpKey >>
    /\ Len(calls) = 2
    /\ calls[1] = [fn |-> "onKeyPressedAndRepeat", arg |-> UpKey]
    /\ calls[2].fn = "setTimeout"

\* The calls releaseKey(k) makes when it runs in the current state.
ReleaseCalls(k) == releaseKey(World, k).calls

\* C15: in every reachable state and for every key code k: with the host
\* ready and k absent, releaseKey(k) leaves the Pressed-Keys Set unchanged,
\* leaves the timers and records of every other key code unchanged and
\* notifies "key released" for k exactly once (and for no other key code);
\* with the host ready, a second releaseKey(k) right after the first leaves
\* the same set, timers and records as the first; with the host not ready
\* releaseKey(k) changes nothing and notifies nothing.
C15_ReleaseAbsentKey ==
    \A k \in KeyCodes :
        LET r1 == releaseKey(World, k)
            r2 == releaseKey(r1, k)
        IN  /\ (Ready /\ ~InSet(k)) =>
                  /\ r1.keysPressed = keysPressed
                  /\ {t \in r1.timers : t.keyCode # k} = {t \in timers : t.keyCode # k}
                  /\ MapDelete(r1.activeRepeats, k) = MapDelete(activeRepeats, k)
                  /\ Occurrences(ReleaseCalls(k), [fn |-> "onKeyReleased", arg |-> k]) = 1
                  /\ Cardinality({i \in DOMAIN ReleaseCalls(k) :
                                     ReleaseCalls(k)[i].fn = "onKeyReleased"}) = 1
            /\ Ready =>
                  /\ r2.keysPressed = r1.keysPressed
                  /\ r2.timers = r1.timers
                  /\ r2.activeRepeats = r1.activeRepeats
            /\ ~Ready => r1 = World

\* C15 witness: a pointer end ran releaseKey(left) with the host ready and
\* the key code absent (nothing was cancelled, the set holds no left key):
\* "key released" is the one call of the step.
C15_Witness ==
    /\ Ready
    /\ calls = << [fn |-> "onKeyReleased", arg |-> LeftKey] >>
    /\ ~InSet(LeftKey)
    /\ TimersOf(LeftKey) = {}

\* A step in which activateMobileControls ran: the toggle command (the flag
\* flips) or the DOMContentLoaded handler (readyState leaves "loading").
Activates == showGamepad' # showGamepad \/ readyState' # readyState
\* Both clusters are in the document.
BothMounted(b) ==
    /\ \E i \in DOMAIN b : b[i].id = DPAD_ID
    /\ \E i \in DOMAIN b : b[i].id = ABXY_ID

\* C13: at startup with the flag false nothing is mounted and no document
\* listener is installed; an activation with the flag false changes neither
\* the document nor the listeners; an activation with the flag true leaves
\* both clusters mounted and installs one document listener; no other step
\* mounts or installs anything, and only the toggle command changes the
\* flag -- so with the flag false at startup and the toggle never run, no
\* cluster is ever mounted.
C13_FlagGatesActivation ==
    /\ (~showGamepad => body = << >> /\ docListeners = 0)
    /\ [][/\ (Activates /\ ~showGamepad') =>
                (body' = body /\ docListeners' = docListeners)
          /\ (Activates /\ showGamepad') =>
                (BothMounted(body') /\ docListeners' = docListeners + 1)
          /\ ~Activates => (body' = body /\ docListeners' = docListeners)
          /\ showGamepad' # showGamepad =>
                UNCHANGED << readyState, pointerToKey, activeRepeats, keysPressed,
                             loaded, loading, timers >>]_vars

\* C13 witness: the page has loaded, so activation has run, with the flag
\* false: nothing is mounted and no document listener is installed, while
\* the host already runs (the bridge would be usable).
C13_Witness ==
    /\ ~showGamepad
    /\ readyState = "interactive"
    /\ Ready
    /\ body = << >>
    /\ docListeners = 0

\* b is an initial part of c: every node of b is still there, in place.
IsPrefix(b, c) == Len(b) <= Len(c) /\ SubSeq(c, 1, Len(b)) = b

\* C17: no step removes a DOM node or a document listener: the document
\* before a step is an initial part of the document after it, so a mounted
\* cluster stays mounted, also while the flag is false; the toggle command
\* changes only the flag, the document and the listener count, and it
\* installs exactly one more document listener when it turns the flag on
\* and none when it turns it off.
C17_MountedStaysMounted ==
    /\ [](~showGamepad \/ readyState = "loading" \/ BothMounted(body))
    /\ [][/\ IsPrefix(body, body')
          /\ docListeners' >= docListeners
          /\ showGamepad' # showGamepad =>
                docListeners' = docListeners + (IF showGamepad' THEN 1 ELSE 0)]_vars

\* C17 witness: the flag is false after two activations with the flag true
\* (two document listeners): both clusters are still in the document.
C17_Witness ==
    /\ ~showGamepad
    /\ docListeners = 2
    /\ BothMounted(body)
    /\ Len(body) = 2

\* C14: in every reachable state the tick of a due interval timer of key
\* code k notifies "key pressed-or-repeat" for k once if the host is ready
\* and k is in the set, and nothing otherwise; in both cases it changes
\* neither the set nor the records nor another timer and leaves the interval
\* armed for the next period, so a later tick notifies again once the host
\* is ready and k is in the set. A step whose only call is "key
\* pressed-or-repeat" for k is such a tick, taken with the host ready and k
\* in the set.
C14_TickGated ==
    /\ [](\A t \in timers :
            (t.kind = "interval" /\ t.remaining <= 0) =>
                LET w == intervalCallback(World, t)
                IN  /\ w.calls = (IF Ready /\ InSet(t.keyCode)
                                  THEN << [fn |-> "onKeyPressedAndRepeat",
                                           arg |-> t.keyCode] >>
                                  ELSE << >>)
                    /\ w.timers = (timers \ {t})
                                    \cup {[t EXCEPT !.remaining = REPEAT_INTERVAL]}
                    /\ w.keysPressed = keysPressed
                    /\ w.activeRepeats = activeRepeats
                    /\ w.pointerToKey = pointerToKey)
    /\ [][\A k \in KeyCodes :
            calls' = << [fn |-> "onKeyPressedAndRepeat", arg |-> k] >> =>
                /\ Ready /\ InSet(k)
                /\ \E t \in timers :
                      /\ t.keyCode = k /\ t.kind = "interval" /\ t.remaining <= 0
                      /\ \E u \in timers' :
                            /\ u.id = t.id /\ u.kind = "interval"
                            /\ u.remaining = REPEAT_INTERVAL
                /\ UNCHANGED << keysPressed, activeRepeats, pointerToKey >>]_vars

\* C14 witness: an interval of the up key that had run a tick without
\* notifying (the host was not ready, or the key code was absent) has just
\* run a tick that notified "key pressed-or-repeat".
C14_Witness ==
    /\ calls = << [fn |-> "onKeyPressedAndRepeat", arg |-> UpKey] >>
    /\ \E t \in timers :
          /\ t.keyCode = UpKey /\ t.kind = "interval"
          /\ t.remaining = REPEAT_INTERVAL
          /\ t.id \in missed

\* C16 (as claimed): whenever the end of pointer p's gesture on key code k
\* notifies "key released" for k, the pressKey of that gesture had taken
\* effect (it had notified "key pressed-or-repeat" for k); and the end of a
\* gesture removes k from the Pressed-Keys Set only if the pressKey of that
\* gesture had taken effect.
C16_ReleaseFollowsOwnPress ==
    [][\A p \in Pointers, k \in KeyCodes :
          GestureEnds(p, k) =>
              /\ Called("onKeyReleased", k)' > 0 => pressOk[p]
              /\ (InSet(k) /\ ~InSet(k)') => pressOk[p]]_vars

====
